---- MODULE Spec2Model ----
(***************************************************************************)
(* Model of cachize-decorator (src/cachizer.ts, current revision: lines    *)
(* 196-472): the TTL cache kept in non-enumerable own properties of the    *)
(* owner object, the in-flight registry `_inflightReq`, and the wrapper    *)
(* returned by getIntermediateFunction.                                    *)
(*                                                                         *)
(* JavaScript values are modelled as strings: "0" is the falsy number 0,   *)
(* "false" and "undefined" are the JS values of those names, "v1" is a     *)
(* truthy result.       An owner object is a function from its own         *)
(* property names to property records.  The source is an ES module; the    *)
(* build either emits strict code (delete of a non-configurable property   *)
(* throws TypeError) or, with noImplicitUseStrict, sloppy code (the delete *)
(* silently fails).  `strict` is that build choice.                        *)
(*                                                                         *)
(* Spec is the decorator on methods a, s and h of two owners.  The other   *)
(* specifications run the same actions in other surroundings: SpecMulti    *)
(* (producers that emit more than once), SpecDefaults (every way of        *)
(* applying the decorator), SpecKeys (argument lists whose keys meet),     *)
(* SpecService (CacheService.get), SpecNoExpiry (ttl: false) and SpecOps   *)
(* (two operations whose registry keys meet).                              *)
(***************************************************************************)
EXTENDS Integers, Sequences, FiniteSets, TLC

VARIABLES
  strict,    \* build choice: is the emitted module strict-mode code
  now,       \* Date.now()
  props,     \* props[o]: own properties of owner object o
  subjects,  \* every rxjs Subject created so far, by identity (index)
  calls,     \* every call of a wrapped method so far, with what its caller saw
  cleared    \* what clearAllCached did, when the last step was one

vars == <<strict, now, props, subjects, calls, cleared>>

\* ---------------------------------------------------------------- bounds
MaxCalls == 2
MaxTime == 2
MaxEmits == 2

\* ------------------------------------------------------------ environment
Owners == {"A", "B"}

\* Wrapped methods, by originalMethod.name:
\*   a: @cache({ ttl: 2 })                 asynchronous, key from first argument
\*   s: @cache({ ttl: 1, async: false })   synchronous, key from first argument
\*   h: @cache(p => p.name.trim(), { ttl: 1 })   asynchronous, custom hash
Methods == {"a", "s", "h"}

\* JS values of the ttl option: a number, or the boolean false.
Num(n) == [t |-> "number", n |-> n]
False == [t |-> "boolean", b |-> FALSE]

\* The numeric value `Date.now() + v` adds for v.
ToNumber(v) == IF v.t = "number" THEN v.n ELSE IF v.b THEN 1 ELSE 0

\* Arguments of a decorator application: a function, an options object
\* (its own keys and their values) or nothing.
Undefined == [type |-> "undefined"]
Fn == [type |-> "function"]
Obj(keys) == [type |-> "object", val |-> keys]

DefaultTtl == 1800000

\* { ttl: 1800000, async: true, log: true }
DefaultOptions ==
  ("ttl" :> Num(DefaultTtl)) @@ ("async" :> TRUE) @@ ("log" :> TRUE)

\* Object.assign({}, target, source): the keys of source win.
Assign(target, source) == source @@ target

\* cache(fn, options): the hash function and the options handed to
\* getIntermediateFunction.  Both parameters default to {}.
cache(fn, options) ==
  LET fn0 == IF fn.type = "undefined" THEN Obj(<<>>) ELSE fn
      options0 == IF options.type = "undefined" THEN Obj(<<>>) ELSE options
  IN IF fn0.type # "function"
     THEN [fn |-> FALSE, options |-> Assign(DefaultOptions, fn0.val)]
     ELSE [fn |-> TRUE, options |-> Assign(DefaultOptions, options0.val)]

\* The name of `() => fallback`, the function CacheService.get wraps.
ServiceMethod == ""

\* The decorator application on each method, as written in the class:
\*   d: @cache()                             n: @cache({ ttl: false })
\*   f: @cache(p => p.name.trim())           a_b: @cache({ ttl: 2 })
\*   g: @cache(p => p.name.trim(), { async: false })
Decorated(m) ==
  CASE m = "a" -> <<Obj("ttl" :> Num(2)), Undefined>>
    [] m = "s" -> <<Obj(("ttl" :> Num(1)) @@ ("async" :> FALSE)), Undefined>>
    [] m = "h" -> <<Fn, Obj("ttl" :> Num(1))>>
    [] m = "d" -> <<Undefined, Undefined>>
    [] m = "f" -> <<Fn, Undefined>>
    [] m = "g" -> <<Fn, Obj("async" :> FALSE)>>
    [] m = "n" -> <<Obj("ttl" :> False), Undefined>>
    [] m = "a_b" -> <<Obj("ttl" :> Num(2)), Undefined>>

\* The options CacheService.get passes when its caller gives none.
ServiceOptions == DefaultOptions

\* The options object the wrapper of method m closes over.
Options(m) ==
  LET o == IF m = ServiceMethod THEN ServiceOptions
           ELSE cache(Decorated(m)[1], Decorated(m)[2]).options
  IN [ttl |-> o["ttl"], async |-> o["async"], log |-> o["log"]]

\* The callers of owner B use method a only.
MethodsCalled(o) == IF o = "A" THEN Methods ELSE {"a"}

HasHashFunction(m) == cache(Decorated(m)[1], Decorated(m)[2]).fn

\* An argument is the sequence of the values of its enumerable fields, in
\* key order: a primitive number has none, { name: "b c" } has one.
Prim1 == <<>>
ObjBC == <<"b c">>

\* Argument lists the callers of each method pass; the callers of owner B
\* pass { name: "b c" } only.
ArgLists(o, m) ==
  IF o = "B" THEN { <<ObjBC>> }
  ELSE CASE m = "a" -> { <<>>, <<ObjBC>> }
         [] m = "s" -> { <<Prim1>>, <<ObjBC>> }
         [] m = "h" -> { <<>>, <<ObjBC>> }

\* The owners clearAllCached is called on.
Cleared == {"A"}

\* Results the underlying operation can produce.
Values == {"0", "v1"}

Falsy == {"0", "false", "undefined", ""}
Truthy(d) == d \notin Falsy

NoValue == "<none>"

\* ------------------------------------------------------------ KeyBuilder
\* hashKey.replace(/\s+/g, '_')
RECURSIVE ReplaceWs(_, _)
ReplaceWs(s, inRun) ==
  IF Len(s) = 0 THEN ""
  ELSE LET c == SubSeq(s, 1, 1)
           rest == SubSeq(s, 2, Len(s))
       IN IF c = " "
          THEN (IF inRun THEN "" ELSE "_") \o ReplaceWs(rest, TRUE)
          ELSE c \o ReplaceWs(rest, FALSE)

\* Array.prototype.join('_')
RECURSIVE Join(_)
Join(vals) ==
  IF Len(vals) = 0 THEN ""
  ELSE IF Len(vals) = 1 THEN vals[1]
  ELSE vals[1] \o "_" \o Join(Tail(vals))

\* The user's hash function of method h, p => p.name.trim(): it raises
\* TypeError when p is undefined (no argument) and when p has no name (a
\* primitive number); otherwise it yields the name.
HashFunction(args) ==
  IF Len(args) = 0 THEN [raises |-> TRUE, key |-> ""]
  ELSE IF Len(args[1]) = 0 THEN [raises |-> TRUE, key |-> ""]
  ELSE [raises |-> FALSE, key |-> args[1][1]]

\* HashKey with the hash function's error swallowed and the single-slot key
\* used in its place.
HashKeySwallow(m, args) ==
  IF HasHashFunction(m) /\ HashFunction(args).raises
  THEN [raises |-> FALSE, key |-> ""]
  ELSE IF Len(args) > 0
  THEN IF HasHashFunction(m)
       THEN [raises |-> FALSE, key |-> ReplaceWs(HashFunction(args).key, FALSE)]
       ELSE [raises |-> FALSE, key |-> ReplaceWs(Join(args[1]), FALSE)]
  ELSE IF HasHashFunction(m)
       THEN HashFunction(args)
       ELSE [raises |-> FALSE, key |-> ""]

\* Lines 433-443 of getIntermediateFunction.
HashKey(m, args) ==
  IF Len(args) > 0
  THEN IF HasHashFunction(m)
       THEN LET h == HashFunction(args)
            IN [raises |-> h.raises, key |-> ReplaceWs(h.key, FALSE)]
       ELSE [raises |-> FALSE, key |-> ReplaceWs(Join(args[1]), FALSE)]
  ELSE IF HasHashFunction(m)
       THEN HashFunction(args)
       ELSE [raises |-> FALSE, key |-> ""]

Prefix == "__cached_val_"
PropName(m) == Prefix \o m
FlightKey == "_inflightReq"
FlightHKey(key, hkey) == key \o "_" \o hkey

StartsWith(s, stub) ==
  Len(s) >= Len(stub) /\ SubSeq(s, 1, Len(stub)) = stub

\* ------------------------------------------------------ property records
MapProp(entries) == [kind |-> "map", configurable |-> FALSE, entries |-> entries]
SlotProp(cval) == [kind |-> "slot", configurable |-> FALSE, cval |-> cval]
RegistryProp(regs) == [kind |-> "registry", configurable |-> FALSE, regs |-> regs]
UserProp == [kind |-> "user", configurable |-> TRUE, val |-> "t"]

Without(f, k) == [x \in DOMAIN f \ {k} |-> f[x]]
With(f, k, v) == (k :> v) @@ f

\* ------------------------------------------------------------ CacheStore
\* NewCVal with the ttl left out of the expiry instant.
NewCValNoTtl(data, t, ttl) == [data |-> data, expired |-> t, storedAt |-> t]

\* { data, expired: Date.now() + options.ttl }; storedAt is a history field
\* (the time of the store), which no operation reads.
NewCVal(data, t, ttl) ==
  [data |-> data, expired |-> t + ToNumber(ttl), storedAt |-> t]

\* cached.expired < Date.now()
Expired(cval, t) == cval.expired < t

\* What `cached` is bound to at line 362 (or left null at line 352):
\* a cache record, the Map object itself, undefined/null, or a TypeError
\* because obj[key] is a cache record, which has no get method.
Lookup(obj, key, hkey) ==
  IF hkey # "" /\ key \notin DOMAIN obj
  THEN [tag |-> "none"]
  ELSE IF hkey # ""
       THEN IF obj[key].kind = "map"
            THEN IF hkey \in DOMAIN obj[key].entries
                 THEN [tag |-> "cval", cval |-> obj[key].entries[hkey]]
                 ELSE [tag |-> "none"]
            ELSE [tag |-> "typeerror"]
       ELSE IF key \notin DOMAIN obj
            THEN [tag |-> "none"]
            ELSE IF obj[key].kind = "slot"
                 THEN [tag |-> "cval", cval |-> obj[key].cval]
                 ELSE [tag |-> "mapobj"]

\* delete obj[key] in cacheGet: the property is non-configurable, so the
\* delete throws in strict code and does nothing in sloppy code.
DeleteOwn(obj, key, strictMode) ==
  IF key \notin DOMAIN obj THEN [threw |-> FALSE, obj |-> obj]
  ELSE IF obj[key].configurable THEN [threw |-> FALSE, obj |-> Without(obj, key)]
  ELSE [threw |-> strictMode, obj |-> obj]

\* cacheGet(obj, key, hkey): the value returned (JS false when absent), or
\* a thrown TypeError, and the owner object afterwards.
cacheGet(obj, key, hkey, t, strictMode) ==
  LET obj1 == IF hkey # "" /\ key \notin DOMAIN obj
              THEN With(obj, key, MapProp(<<>>))
              ELSE obj
      cached == Lookup(obj, key, hkey)
  IN IF cached.tag = "typeerror"
     THEN [threw |-> TRUE, ret |-> NoValue, obj |-> obj1]
     ELSE IF cached.tag = "cval" /\ Expired(cached.cval, t)
     THEN IF hkey # ""
          THEN [threw |-> FALSE, ret |-> "false",
                obj |-> [obj1 EXCEPT ![key].entries = Without(@, hkey)]]
          ELSE LET d == DeleteOwn(obj1, key, strictMode)
               IN [threw |-> d.threw,
                   ret |-> IF d.threw THEN NoValue ELSE "false",
                   obj |-> d.obj]
     ELSE [threw |-> FALSE,
           ret |-> CASE cached.tag = "cval" -> cached.cval.data
                     [] cached.tag = "mapobj" -> "undefined"
                     [] OTHER -> "false",
           obj |-> obj1]

\* The store part of cacheSet (lines 378-389): memoized.set(hkey, cval) or
\* Object.defineProperty(obj, key, ...), either of which can throw.
StoreCVal(obj, key, hkey, cval) ==
  IF hkey # ""
  THEN IF key \in DOMAIN obj /\ obj[key].kind = "map"
       THEN [threw |-> FALSE,
             obj |-> [obj EXCEPT ![key].entries = With(@, hkey, cval)]]
       ELSE [threw |-> TRUE, obj |-> obj]
  ELSE IF key \notin DOMAIN obj
       THEN [threw |-> FALSE, obj |-> With(obj, key, SlotProp(cval))]
       ELSE [threw |-> TRUE, obj |-> obj]

\* -------------------------------------------------- InFlightCoordinator
NewSubject(o, fhkey) ==
  [owner |-> o, fhkey |-> fhkey, observers |-> {}, isStopped |-> FALSE]

\* Lines 397-404: the registry is created on first use.
EnsureRegistry(obj) ==
  IF FlightKey \in DOMAIN obj THEN obj
  ELSE With(obj, FlightKey, RegistryProp(<<>>))

Registry(obj) ==
  IF FlightKey \in DOMAIN obj THEN obj[FlightKey].regs ELSE <<>>

\* inFlight.next(data) to every observer, then inFlight.complete().
Notify(cs, observers, data) ==
  [c \in DOMAIN cs |->
     IF c \in observers
     THEN [cs[c] EXCEPT !.got = Append(@, data), !.end = "complete"]
     ELSE cs[c]]

\* FlightBranch with the join test of line 417 lost: a call that finds a
\* registration registers a fresh Subject and becomes a producer.
FlightBranchNoJoin(data, has) ==
  IF Truthy(data) /\ has THEN "resolve" ELSE "register"

\* Which of the three branches of lines 405-422 is taken.
FlightBranch(data, has) ==
  IF Truthy(data) /\ has THEN "resolve"
  ELSE IF ~Truthy(data) /\ has THEN "join"
  ELSE "register"

\* resolveInflights(obj, key, hkey, data, options).  inflight is the
\* Subject returned (0 when the function returns a boolean).
resolveInflights(obj, subs, cs, o, key, hkey, data) ==
  LET fhkey == FlightHKey(key, hkey)
      obj1 == EnsureRegistry(obj)
      regs == obj1[FlightKey].regs
      branch == FlightBranch(data, fhkey \in DOMAIN regs)
  IN CASE branch = "resolve" ->
            LET id == regs[fhkey]
            IN [obj |-> [obj1 EXCEPT ![FlightKey].regs = Without(@, fhkey)],
                subs |-> [subs EXCEPT ![id].observers = {},
                                      ![id].isStopped = TRUE],
                calls |-> Notify(cs, subs[id].observers, data),
                inflight |-> 0]
       [] branch = "join" ->
            [obj |-> obj1, subs |-> subs, calls |-> cs,
             inflight |-> regs[fhkey]]
       [] branch = "register" ->
            [obj |-> [obj1 EXCEPT ![FlightKey].regs =
                                     With(@, fhkey, Len(subs) + 1)],
             subs |-> Append(subs, NewSubject(o, fhkey)),
             calls |-> cs,
             inflight |-> 0]

\* cacheSet(obj, key, hkey, data, options) at time t.
cacheSet(obj, subs, cs, o, key, hkey, data, ttl, t) ==
  LET st == StoreCVal(obj, key, hkey, NewCVal(data, t, ttl))
  IN IF st.threw
     THEN [threw |-> TRUE, obj |-> obj, subs |-> subs, calls |-> cs]
     ELSE LET r == resolveInflights(st.obj, subs, cs, o, key, hkey, data)
          IN [threw |-> FALSE, obj |-> r.obj, subs |-> r.subs,
              calls |-> r.calls]

\* clearAllCached(obj): delete every own property whose name starts with
\* the stub, in property order; a delete that throws ends the loop.
RECURSIVE ClearKeys(_, _, _)
ClearKeys(obj, keys, strictMode) ==
  IF keys = {} THEN [threw |-> FALSE, obj |-> obj]
  ELSE LET key == CHOOSE k \in keys : TRUE
           d == IF StartsWith(key, Prefix)
                THEN DeleteOwn(obj, key, strictMode)
                ELSE [threw |-> FALSE, obj |-> obj]
       IN IF d.threw THEN d
          ELSE ClearKeys(d.obj, keys \ {key}, strictMode)

\* clearAllCached resetting the owner to its user properties: every
\* property the cache defined goes, the in-flight registry included.
clearAllCachedReset(obj, strictMode) ==
  [threw |-> FALSE,
   obj |-> [k \in {x \in DOMAIN obj : obj[x].kind = "user"} |-> obj[k]]]

clearAllCached(obj, strictMode) == ClearKeys(obj, DOMAIN obj, strictMode)

\* ------------------------------------------------------------ Orchestrator
\* What one call of the wrapped method is, as its caller sees it.
\*   kind: keyerror (hash function raised), threw (TypeError out of
\*         cacheGet or cacheSet), hit, producer, waiter, sync
\*   invoked: originalMethod.apply was reached
\*   reg: the Subject registered by (producer) or returned to (waiter) it
\*   sub: a waiter's subscription to the Subject it was handed
\*   got: the values the caller received (returned to it in synchronous
\*        mode, emitted to it by the returned observable otherwise)
\*   end: open, complete or error
\*   logged: the console.log of the cache-hit path ran
CallRec(o, m, args, hkey, kind, invoked, reg, sub, got, end, logged) ==
  [owner |-> o, method |-> m, args |-> args, hkey |-> hkey, kind |-> kind,
   invoked |-> invoked, reg |-> reg, sub |-> sub, got |-> got, end |-> end,
   logged |-> logged]

\* The function returned by getIntermediateFunction from line 444 on, with
\* hk the outcome of the key derivation of lines 433-443, called on owner o
\* at time t; v is what originalMethod returns if a synchronous-mode call
\* reaches it.  Yields the call's record and the state it leaves.
Wrapped(obj, subs, cs, o, m, args, hk, v, t, strictMode) ==
  LET propName == PropName(m)
      opt == Options(m)
      g == cacheGet(obj, propName, hk.key, t, strictMode)
      j == resolveInflights(g.obj, subs, cs, o, propName, hk.key, "undefined")
      w == cacheSet(g.obj, subs, cs, o, propName, hk.key, v, opt.ttl, t)
      Rec(hkey, kind, invoked, reg, sub, got, end) ==
        CallRec(o, m, args, hkey, kind, invoked, reg, sub, got, end,
                kind = "hit" /\ opt.log)
  IN IF hk.raises
     THEN [rec |-> Rec("", "keyerror", FALSE, 0, "n/a", <<>>, "error"),
           obj |-> obj, subs |-> subs, calls |-> cs]
     ELSE IF g.threw
     THEN [rec |-> Rec(hk.key, "threw", FALSE, 0, "n/a", <<>>, "error"),
           obj |-> g.obj, subs |-> subs, calls |-> cs]
     ELSE IF Truthy(g.ret)
     THEN [rec |-> Rec(hk.key, "hit", FALSE, 0, "n/a", <<g.ret>>, "complete"),
           obj |-> g.obj, subs |-> subs, calls |-> cs]
     ELSE IF opt.async
     THEN [rec |-> IF j.inflight # 0
                   THEN Rec(hk.key, "waiter", FALSE, j.inflight,
                            "unsubscribed", <<>>, "open")
                   ELSE Rec(hk.key, "producer", TRUE, Len(j.subs),
                            "n/a", <<>>, "open"),
           obj |-> j.obj, subs |-> j.subs, calls |-> j.calls]
     ELSE IF w.threw
     THEN [rec |-> Rec(hk.key, "threw", TRUE, 0, "n/a", <<>>, "error"),
           obj |-> w.obj, subs |-> w.subs, calls |-> w.calls]
     ELSE [rec |-> Rec(hk.key, "sync", TRUE, 0, "n/a", <<v>>, "complete"),
           obj |-> w.obj, subs |-> w.subs, calls |-> w.calls]

\* The function returned by getIntermediateFunction, called with the
\* argument list args.
Intermediate(obj, subs, cs, o, m, args, v, t, strictMode) ==
  Wrapped(obj, subs, cs, o, m, args, HashKey(m, args), v, t, strictMode)

\* ThisOf with the cache state kept on one object shared by all owners (the
\* decorator's target) instead of on the receiver.
ThisOfShared(o) == "A"

\* `this` of a call on owner o: the object whose properties hold the state.
ThisOf(o) == o

\* ----------------------------------------------------------------- actions
NoClear == [owner |-> "", threw |-> FALSE]

Init ==
  /\ strict \in BOOLEAN
  /\ now = 0
  /\ props = [o \in Owners |-> ("title" :> UserProp)]
  /\ subjects = <<>>
  /\ calls = <<>>
  /\ cleared = NoClear

\* A caller calls wrapped method m of owner o with argument list args.  The
\* producer's caller subscribes to the returned observable at once.
Call(o, m, args) ==
  /\ Len(calls) < MaxCalls
  /\ \E v \in Values :
       LET r == Intermediate(props[ThisOf(o)], subjects, calls, o, m, args,
                             v, now, strict)
       IN /\ props' = [props EXCEPT ![ThisOf(o)] = r.obj]
          /\ subjects' = r.subs
          /\ calls' = Append(r.calls, r.rec)
  /\ cleared' = NoClear
  /\ UNCHANGED <<strict, now>>

\* Subscribe with a Subject that replays its value: a subscriber to a
\* stopped Subject receives what the producer received, then completion.
SubscribeReplay(c) ==
  /\ calls[c].kind = "waiter"
  /\ calls[c].sub = "unsubscribed"
  /\ LET id == calls[c].reg
         p == CHOOSE q \in DOMAIN calls :
                calls[q].kind = "producer" /\ calls[q].reg = id
     IN IF subjects[id].isStopped
        THEN /\ calls' = [calls EXCEPT ![c].sub = "late", ![c].end = "complete",
                                       ![c].got = calls[p].got]
             /\ UNCHANGED subjects
        ELSE /\ calls' = [calls EXCEPT ![c].sub = "attached"]
             /\ subjects' = [subjects EXCEPT ![id].observers = @ \cup {c}]
  /\ cleared' = NoClear
  /\ UNCHANGED <<strict, now, props>>

\* A waiter subscribes to the Subject it was handed: a stopped Subject
\* completes the subscriber at once, a live one adds it to its observers.
Subscribe(c) ==
  /\ calls[c].kind = "waiter"
  /\ calls[c].sub = "unsubscribed"
  /\ LET id == calls[c].reg
     IN IF subjects[id].isStopped
        THEN /\ calls' = [calls EXCEPT ![c].sub = "late", ![c].end = "complete"]
             /\ UNCHANGED subjects
        ELSE /\ calls' = [calls EXCEPT ![c].sub = "attached"]
             /\ subjects' = [subjects EXCEPT ![id].observers = @ \cup {c}]
  /\ cleared' = NoClear
  /\ UNCHANGED <<strict, now, props>>

\* The producer's observable emits its result v: the tap callback of lines
\* 462-464 runs cacheSet, then v reaches the producer's caller; a throw in
\* the callback reaches the caller as an error instead.
Emit(c, v) ==
  /\ calls[c].kind = "producer"
  /\ calls[c].end = "open"
  /\ calls[c].got = <<>>
  /\ LET o == calls[c].owner
         m == calls[c].method
         w == cacheSet(props[ThisOf(o)], subjects, calls, o, PropName(m),
                       calls[c].hkey, v, Options(m).ttl, now)
     IN /\ props' = [props EXCEPT ![ThisOf(o)] = w.obj]
        /\ subjects' = w.subs
        /\ calls' = IF w.threw
                    THEN [w.calls EXCEPT ![c].end = "error"]
                    ELSE [w.calls EXCEPT ![c].got = Append(@, v)]
  /\ cleared' = NoClear
  /\ UNCHANGED <<strict, now>>

\* Fail with the error also broadcast to the observers of the producer's
\* Subject.
FailBroadcast(c) ==
  /\ calls[c].kind = "producer"
  /\ calls[c].end = "open"
  /\ calls[c].got = <<>>
  /\ calls' = [d \in DOMAIN calls |->
                IF d = c \/ d \in subjects[calls[c].reg].observers
                THEN [calls[d] EXCEPT !.end = "error"]
                ELSE calls[d]]
  /\ cleared' = NoClear
  /\ UNCHANGED <<strict, now, props, subjects>>

\* Fail with the failed producer's registration removed from the registry,
\* as an error handler that cleans up would do.
FailUnregister(c) ==
  /\ calls[c].kind = "producer"
  /\ calls[c].end = "open"
  /\ calls[c].got = <<>>
  /\ calls' = [calls EXCEPT ![c].end = "error"]
  /\ LET o == calls[c].owner
         f == FlightHKey(PropName(calls[c].method), calls[c].hkey)
     IN props' = [props EXCEPT ![o][FlightKey].regs = Without(@, f)]
  /\ cleared' = NoClear
  /\ UNCHANGED <<strict, now, subjects>>

\* The producer's observable fails instead of emitting: pipe(tap(next))
\* passes the error to the producer's caller and nothing else runs.
Fail(c) ==
  /\ calls[c].kind = "producer"
  /\ calls[c].end = "open"
  /\ calls[c].got = <<>>
  /\ calls' = [calls EXCEPT ![c].end = "error"]
  /\ cleared' = NoClear
  /\ UNCHANGED <<strict, now, props, subjects>>

\* clearAllCached(o) is called; it returns or throws.
ClearAll(o) ==
  /\ LET r == clearAllCached(props[o], strict)
     IN /\ props' = [props EXCEPT ![o] = r.obj]
        /\ cleared' = [owner |-> o, threw |-> r.threw]
  /\ UNCHANGED <<strict, now, subjects, calls>>

Tick ==
  /\ now < MaxTime
  /\ now' = now + 1
  /\ cleared' = NoClear
  /\ UNCHANGED <<strict, props, subjects, calls>>

Next ==
  \/ \E o \in Owners : \E m \in MethodsCalled(o) : \E args \in ArgLists(o, m) :
        Call(o, m, args)
  \/ \E c \in DOMAIN calls : Subscribe(c)
  \/ \E c \in DOMAIN calls, v \in Values : Emit(c, v)
  \/ \E c \in DOMAIN calls : Fail(c)
  \/ \E o \in Cleared : ClearAll(o)
  \/ Tick

Spec == Init /\ [][Next]_vars

\* ------------------------------------------- producers that emit again
\* The producer's observable emits a further value v: the tap callback
\* runs cacheSet again, exactly as for the first value.
EmitAgain(c, v) ==
  /\ calls[c].kind = "producer"
  /\ calls[c].end = "open"
  /\ calls[c].got # <<>>
  /\ Len(calls[c].got) < MaxEmits
  /\ LET o == calls[c].owner
         m == calls[c].method
         w == cacheSet(props[ThisOf(o)], subjects, calls, o, PropName(m),
                       calls[c].hkey, v, Options(m).ttl, now)
     IN /\ props' = [props EXCEPT ![ThisOf(o)] = w.obj]
        /\ subjects' = w.subs
        /\ calls' = IF w.threw
                    THEN [w.calls EXCEPT ![c].end = "error"]
                    ELSE [w.calls EXCEPT ![c].got = Append(@, v)]
  /\ cleared' = NoClear
  /\ UNCHANGED <<strict, now>>

NextMulti ==
  \/ Next
  \/ \E c \in DOMAIN calls, v \in Values : EmitAgain(c, v)

SpecMulti == Init /\ [][NextMulti]_vars

\* ------------------------------------- every way of applying the decorator
\* Methods decorated with no arguments (d), options only (s), a hash
\* function only (f), a hash function and partial options (g), all called
\* on owner A with { name: "b c" }.
DefaultsMethods == {"d", "s", "f", "g"}

NextDefaults ==
  \/ \E m \in DefaultsMethods : Call("A", m, <<ObjBC>>)
  \/ \E c \in DOMAIN calls : Subscribe(c)
  \/ \E c \in DOMAIN calls, v \in Values : Emit(c, v)
  \/ \E c \in DOMAIN calls : Fail(c)
  \/ ClearAll("A")
  \/ Tick

SpecDefaults == Init /\ [][NextDefaults]_vars

\* --------------------------------------------- argument lists and keys
\* { name: "c" }, { name: "b_c" } and { x: "b", y: "c" }.
ObjC == <<"c">>
ObjB_C == <<"b_c">>
ObjXY == <<"b", "c">>

\* Argument lists passed to the methods without a hash function: none, a
\* number, one object, an object and a number.
KeyArgLists ==
  { <<>>, <<Prim1>>, <<ObjC>>, <<ObjBC>>, <<ObjB_C>>, <<ObjXY>>,
    <<ObjC, Prim1>> }

NextKeys ==
  \/ \E m \in {"a", "s"}, args \in KeyArgLists : Call("A", m, args)
  \/ \E c \in DOMAIN calls : Subscribe(c)
  \/ \E c \in DOMAIN calls, v \in Values : Emit(c, v)
  \/ \E c \in DOMAIN calls : Fail(c)
  \/ ClearAll("A")
  \/ Tick

SpecKeys == Init /\ [][NextKeys]_vars

\* ------------------------------------------------------------ CacheService
\* The injected CacheService instance; its one own field is keyIncrementer.
Service == "S"

\* String keys the callers of CacheService.get pass as keyHash.
ServiceKeys == {"k1", "k2", ""}

\* The hash function CacheService.get builds for a string keyHash (lines
\* 255-259) applied with no argument (line 442): the template literal of
\* keyHash when keyHash is falsy, of this.keyIncrementer otherwise.
ServiceHashKey(obj, keyHash) ==
  [raises |-> FALSE,
   key |-> IF ~Truthy(keyHash) THEN keyHash ELSE obj["keyIncrementer"].val]

InitService ==
  /\ strict \in BOOLEAN
  /\ now = 0
  /\ props = [o \in {Service} |->
               ("keyIncrementer" :> [kind |-> "user", configurable |-> TRUE,
                                     val |-> "0"])]
  /\ subjects = <<>>
  /\ calls = <<>>
  /\ cleared = NoClear

\* CacheService.get(fallback, keyHash) with the default options: the
\* wrapper of () => fallback is built, bound to the service and called
\* with no argument.
Get(keyHash) ==
  /\ Len(calls) < MaxCalls
  /\ LET r == Wrapped(props[Service], subjects, calls, Service, ServiceMethod,
                      <<keyHash>>, ServiceHashKey(props[Service], keyHash),
                      NoValue, now, strict)
     IN /\ props' = [props EXCEPT ![Service] = r.obj]
        /\ subjects' = r.subs
        /\ calls' = Append(r.calls, r.rec)
  /\ cleared' = NoClear
  /\ UNCHANGED <<strict, now>>

NextService ==
  \/ \E keyHash \in ServiceKeys : Get(keyHash)
  \/ \E c \in DOMAIN calls : Subscribe(c)
  \/ \E c \in DOMAIN calls, v \in Values : Emit(c, v)
  \/ \E c \in DOMAIN calls : Fail(c)
  \/ ClearAll(Service)
  \/ Tick

SpecService == InitService /\ [][NextService]_vars

\* ------------------------------------------------------- expiry disabled
\* Method n, decorated @cache({ ttl: false }), called on owner A with no
\* argument and with { name: "b c" }.
NoExpiryArgLists == { <<>>, <<ObjBC>> }

NextNoExpiry ==
  \/ \E args \in NoExpiryArgLists : Call("A", "n", args)
  \/ \E c \in DOMAIN calls : Subscribe(c)
  \/ \E c \in DOMAIN calls, v \in Values : Emit(c, v)
  \/ \E c \in DOMAIN calls : Fail(c)
  \/ ClearAll("A")
  \/ Tick

SpecNoExpiry == Init /\ [][NextNoExpiry]_vars

\* ----------------------------------------------- two operations, one owner
\* Methods a and a_b of owner A, both @cache({ ttl: 2 }), called with
\* { name: "c" } and { name: "b c" }.
OpsMethods == {"a", "a_b"}
OpsArgLists == { <<ObjC>>, <<ObjBC>> }

NextOps ==
  \/ \E m \in OpsMethods, args \in OpsArgLists : Call("A", m, args)
  \/ \E c \in DOMAIN calls : Subscribe(c)
  \/ \E c \in DOMAIN calls, v \in Values : Emit(c, v)
  \/ \E c \in DOMAIN calls : Fail(c)
  \/ ClearAll("A")
  \/ Tick

SpecOps == Init /\ [][NextOps]_vars

\* ================================================================ claims
Fhk(c) == FlightHKey(PropName(calls[c].method), calls[c].hkey)

SameKey(c, d) == calls[c].owner = calls[d].owner /\ Fhk(c) = Fhk(d)

\* A producer whose result has not been stored.
PendingProducer(p) == calls[p].kind = "producer" /\ calls[p].got = <<>>

\* The call record a Call step appends.
NewCall == calls'[Len(calls')]

\* The step is the call k = <<owner, method, argument list>>.
IsCall(k) ==
  /\ Len(calls') = Len(calls) + 1
  /\ NewCall.owner = k[1]
  /\ NewCall.method = k[2]
  /\ Call(k[1], k[2], k[3])

\* The step is an emission of producer c.
IsEmit(c) ==
  /\ Len(calls') = Len(calls)
  /\ calls'[c] # calls[c]
  /\ \E v \in Values : Emit(c, v)

\* The step is clearAllCached(o).
IsClear(o) == cleared'.owner = o /\ ClearAll(o)

\* The step is the failure of producer c.
IsFail(c) ==
  /\ Len(calls') = Len(calls)
  /\ calls'[c] # calls[c]
  /\ Fail(c)

\* The calls <<owner, method, argument list>> the callers make.
CallSites ==
  {<<o, m, args>> \in Owners \X Methods \X {<<>>, <<Prim1>>, <<ObjBC>>} :
     m \in MethodsCalled(o) /\ args \in ArgLists(o, m)}

\* Those that derive a key, with the key: <<owner, method, args, hashKey>>.
Keys ==
  {<<k[1], k[2], k[3], HashKey(k[2], k[3]).key>> :
     k \in {c \in CallSites : ~HashKey(c[2], c[3]).raises}}

\* The cache record stored on owner k[1] for method k[2] and key k[4].
Entry(k) == Lookup(props[k[1]], PropName(k[2]), k[4])

\* A hypothetical cacheGet for that key in the current state.
Read(k) == cacheGet(props[k[1]], PropName(k[2]), k[4], now, strict)

\* The time-to-live of the entries of method m, in clock units.
Ttl(m) == ToNumber(Options(m).ttl)

\* C1 - Single-flight: while a producer's result for an owner and key has
\* not been stored, every later call for that owner and key that reaches
\* the cache is a waiter holding the producer's Subject and does not invoke
\* the operation, so the calls of the window invoke it exactly once.
SingleFlight ==
  \A p \in DOMAIN calls :
    PendingProducer(p) =>
      /\ \A q \in DOMAIN calls :
           (p < q /\ SameKey(p, q) /\ calls[q].kind # "keyerror") =>
             /\ calls[q].kind = "waiter"
             /\ ~calls[q].invoked
             /\ calls[q].reg = calls[p].reg
      /\ Cardinality({c \in DOMAIN calls :
                        c >= p /\ SameKey(p, c) /\ calls[c].invoked}) = 1

SingleFlightWitness ==
  \E p, q \in DOMAIN calls :
    /\ p < q /\ PendingProducer(p) /\ SameKey(p, q)
    /\ calls[q].kind = "waiter" /\ calls[q].reg = calls[p].reg

\* C2 - Coalesced delivery: once the producer has resolved with v, every
\* waiter attached to the producer's Subject has observed exactly v.
CoalescedDelivery ==
  \A p, w \in DOMAIN calls :
    (/\ calls[p].kind = "producer" /\ calls[p].got # <<>>
     /\ calls[w].kind = "waiter" /\ calls[w].reg = calls[p].reg
     /\ calls[w].sub = "attached")
    => calls[w].got = calls[p].got

\* C3 - Cache-hit path: a call whose key has a live entry returns the
\* stored value, does not invoke the operation, and changes neither the
\* owner's properties (entry and registry) nor any Subject.
CacheHitPath ==
  [][\A k \in Keys :
       (/\ IsCall(k)
        /\ Entry(k).tag = "cval"
        /\ now < Entry(k).cval.expired)
       => /\ NewCall.kind = "hit"
          /\ NewCall.got = <<Entry(k).cval.data>>
          /\ ~NewCall.invoked
          /\ props' = props
          /\ subjects' = subjects]_vars

\* C4 - TTL validity: a value v stored for a key at time t with ttl > 0 is
\* what cacheGet returns for that key at every time t' with
\* t <= t' < t + ttl.
TTLValidity ==
  \A k \in Keys :
    LET e == Entry(k)
    IN (/\ e.tag = "cval"
        /\ e.cval.storedAt <= now
        /\ now < e.cval.storedAt + Ttl(k[2]))
       => /\ ~Read(k).threw
          /\ Read(k).ret = e.cval.data

TTLValidityWitness ==
  \E k \in Keys :
    LET e == Entry(k)
    IN /\ e.tag = "cval"
       /\ e.cval.storedAt < now
       /\ now < e.cval.storedAt + Ttl(k[2])
       /\ \E c \in DOMAIN calls :
            /\ calls[c].kind = "hit" /\ calls[c].owner = k[1]
            /\ calls[c].method = k[2] /\ calls[c].got = <<e.cval.data>>

\* C5 - TTL expiry: a value stored for a key at time t is reported absent by
\* cacheGet at every time t' >= t + ttl, and that read deletes the entry.
TTLExpiry ==
  \A k \in Keys :
    LET e == Entry(k)
        g == Read(k)
    IN (e.tag = "cval" /\ now >= e.cval.storedAt + Ttl(k[2]))
       => /\ ~g.threw
          /\ g.ret = "false"
          /\ Lookup(g.obj, PropName(k[2]), k[4]).tag = "none"

\* C6 - Refresh after expiry, synchronous mode: a call for a key whose
\* stored entry has expired invokes the operation, returns its result
\* without raising, and leaves that result stored with a fresh expiry.
RefreshAfterExpiry ==
  [][\A k \in Keys :
       (/\ IsCall(k)
        /\ ~Options(k[2]).async
        /\ Entry(k).tag = "cval"
        /\ Expired(Entry(k).cval, now))
       => /\ NewCall.kind = "sync"
          /\ NewCall.invoked
          /\ Lookup(props'[k[1]], PropName(k[2]), k[4])
               = [tag |-> "cval",
                  cval |-> NewCVal(NewCall.got[1], now, Options(k[2]).ttl)]]_vars

\* C7 - Bulk clear precision: when clearAllCached(owner) returns, owner has
\* no own property whose name starts with the reserved prefix, and every
\* other own property is still there with the same value.
BulkClearPrecision ==
  [][\A o \in Cleared :
       (IsClear(o) /\ ~cleared'.threw)
       => /\ \A key \in DOMAIN props'[o] : ~StartsWith(key, Prefix)
          /\ \A key \in DOMAIN props[o] :
               ~StartsWith(key, Prefix) =>
                 key \in DOMAIN props'[o] /\ props'[o][key] = props[o][key]]_vars

OthersUntouched(o) ==
  /\ \A b \in Owners \ {o} : props'[b] = props[b]
  /\ \A i \in DOMAIN subjects : subjects[i].owner # o => subjects'[i] = subjects[i]
  /\ \A c \in DOMAIN calls : calls[c].owner # o => calls'[c] = calls[c]

\* C8 - Scope isolation: a call on owner B that hits returns the value of
\* B's own entry, a call on B that waits holds a Subject registered by a
\* call on B, and no call, emission or clearAllCached on B changes the
\* properties (entries, registry), Subjects or callers of another owner.
ScopeIsolation ==
  [][/\ \A k \in CallSites : IsCall(k) => OthersUntouched(k[1])
     /\ \A k \in Keys :
          IsCall(k) =>
            /\ NewCall.kind = "hit" =>
                 /\ Entry(k).tag = "cval"
                 /\ NewCall.got = <<Entry(k).cval.data>>
            /\ NewCall.kind = "waiter" =>
                 /\ subjects[NewCall.reg].owner = k[1]
                 /\ NewCall.reg \in {Registry(props[k[1]])[f] :
                                       f \in DOMAIN Registry(props[k[1]])}
     /\ \A o \in Cleared : IsClear(o) => OthersUntouched(o)
     /\ \A c \in DOMAIN calls :
          IsEmit(c) => OthersUntouched(calls[c].owner)]_vars

\* Two owners were called with the same method and key: one holds a stored
\* truthy result and has just been cleared, the other a pending producer.
ScopeIsolationWitness ==
  \E c, d \in DOMAIN calls :
    /\ calls[c].owner # calls[d].owner
    /\ calls[c].method = calls[d].method /\ calls[c].hkey = calls[d].hkey
    /\ PendingProducer(c) /\ calls[d].kind = "producer"
    /\ calls[d].got # <<>> /\ Truthy(calls[d].got[1])
    /\ cleared.owner = calls[d].owner

FailedProducer(p) ==
  calls[p].kind = "producer" /\ calls[p].end = "error" /\ calls[p].got = <<>>

\* C9 - Asynchronous producer failure: the failure reaches the producer's
\* caller only; nothing is stored for the key; every waiter on the
\* producer's Subject stays unnotified and pending, the Subject stays
\* registered and live.
ProducerFailure ==
  /\ [](\A p \in DOMAIN calls :
          FailedProducer(p) =>
            LET o == calls[p].owner
                e == Lookup(props[o], PropName(calls[p].method), calls[p].hkey)
            IN /\ \A w \in DOMAIN calls :
                    (calls[w].kind = "waiter" /\ calls[w].reg = calls[p].reg)
                    => calls[w].got = <<>> /\ calls[w].end = "open"
               /\ ~subjects[calls[p].reg].isStopped
               /\ Fhk(p) \in DOMAIN Registry(props[o])
               /\ Registry(props[o])[Fhk(p)] = calls[p].reg
               /\ e.tag = "cval" => Expired(e.cval, now))
  /\ [][\A c \in DOMAIN calls :
          IsFail(c) => /\ calls'[c].end = "error"
                     /\ \A d \in DOMAIN calls \ {c} : calls'[d] = calls[d]
                     /\ props' = props
                     /\ subjects' = subjects]_vars

ProducerFailureWitness ==
  \E p, w \in DOMAIN calls :
    /\ FailedProducer(p)
    /\ calls[w].kind = "waiter" /\ calls[w].reg = calls[p].reg
    /\ calls[w].sub = "attached"
    /\ now > 0

\* C10 - Key derivation error: a call whose hash function raises ends with
\* that error, does not invoke the operation, and leaves every property of
\* every owner, every Subject and every other caller as it was.
KeyDerivationError ==
  [][\A k \in CallSites :
       (/\ HasHashFunction(k[2])
        /\ HashFunction(k[3]).raises
        /\ IsCall(k))
       => /\ NewCall.kind = "keyerror"
          /\ NewCall.end = "error"
          /\ ~NewCall.invoked
          /\ props' = props
          /\ subjects' = subjects
          /\ \A c \in DOMAIN calls : calls'[c] = calls[c]]_vars

\* A hash function raised on an owner that already holds cache state.
KeyDerivationErrorWitness ==
  \E c \in DOMAIN calls :
    /\ calls[c].kind = "keyerror"
    /\ c > 1
    /\ PropName(calls[c].method) \in DOMAIN props[calls[c].owner]

\* The step is a further emission of producer c.
IsEmitAgain(c) ==
  /\ Len(calls') = Len(calls)
  /\ calls'[c] # calls[c]
  /\ \E v \in Values : EmitAgain(c, v)

\* C11 - First-emission-only caching: a further emission of a producer
\* that has already emitted leaves the cache entry of its key as it was,
\* does not raise, and leaves the owner's in-flight registry and every
\* Subject as they were.
FirstEmissionOnly ==
  [][\A c \in DOMAIN calls :
       IsEmitAgain(c) =>
         LET o == calls[c].owner
             key == PropName(calls[c].method)
         IN /\ Lookup(props'[o], key, calls[c].hkey)
                 = Lookup(props[o], key, calls[c].hkey)
            /\ calls'[c].end # "error"
            /\ Registry(props'[o]) = Registry(props[o])
            /\ subjects' = subjects]_vars

\* The options object written in the decorator application on method m.
GivenOptions(m) ==
  LET d == Decorated(m)
  IN IF d[1].type = "object" THEN d[1].val
     ELSE IF d[1].type = "function" /\ d[2].type = "object" THEN d[2].val
     ELSE <<>>

Omitted(m, option) == option \notin DOMAIN GivenOptions(m)

\* C12 - Default configuration: in every call of a method whose decorator
\* application omitted an option, that option has its documented default:
\* ttl omitted - the entry stored for the call's key expires 30 minutes
\* (1800000 ms) after it was stored; async omitted - the call takes the
\* asynchronous path; log omitted - the call prints nothing.
DefaultConfiguration ==
  \A c \in DOMAIN calls :
    LET m == calls[c].method
        e == Lookup(props[calls[c].owner], PropName(m), calls[c].hkey)
    IN /\ (Omitted(m, "ttl") /\ calls[c].kind # "keyerror" /\ e.tag = "cval")
            => e.cval.expired = e.cval.storedAt + 30 * 60 * 1000
       /\ Omitted(m, "async") => calls[c].kind # "sync"
       /\ Omitted(m, "log") => ~calls[c].logged

\* C13 - Key uniqueness per argument combination: two calls of one method
\* without a hash function on one owner whose argument lists differ have
\* different keys, and a hit returns a value that a call with the same
\* argument list received from the operation.
KeyUniqueness ==
  \A d \in DOMAIN calls :
    ~HasHashFunction(calls[d].method) =>
      /\ \A c \in DOMAIN calls :
           (/\ calls[c].owner = calls[d].owner
            /\ calls[c].method = calls[d].method
            /\ calls[c].args # calls[d].args)
           => calls[c].hkey # calls[d].hkey
      /\ calls[d].kind = "hit" =>
           \E c \in DOMAIN calls :
             /\ c < d
             /\ calls[c].owner = calls[d].owner
             /\ calls[c].method = calls[d].method
             /\ calls[c].args = calls[d].args
             /\ calls[c].invoked
             /\ calls[c].got # <<>>
             /\ calls[d].got[1] \in {calls[c].got[i] : i \in DOMAIN calls[c].got}

\* C14 - CacheService string keys: two calls of CacheService.get with
\* distinct string keys are stored under distinct keys; a hit returns a
\* value emitted to a producer with the same key, and a waiter holds the
\* Subject registered by a producer with the same key.
ServiceStringKeys ==
  \A d \in DOMAIN calls :
    calls[d].owner = Service =>
      /\ \A c \in DOMAIN calls :
           calls[c].args # calls[d].args => calls[c].hkey # calls[d].hkey
      /\ calls[d].kind = "hit" =>
           \E c \in DOMAIN calls :
             /\ c < d /\ calls[c].args = calls[d].args
             /\ calls[c].kind = "producer"
             /\ calls[c].got # <<>> /\ calls[d].got[1] = calls[c].got[1]
      /\ calls[d].kind = "waiter" =>
           \E c \in DOMAIN calls :
             /\ c < d /\ calls[c].args = calls[d].args
             /\ calls[c].kind = "producer" /\ calls[c].reg = calls[d].reg

\* What the emission of v by producer p does from the owner object obj,
\* the Subjects subs and the callers cs.
Resolution(obj, subs, cs, p, v) ==
  cacheSet(obj, subs, cs, calls[p].owner, PropName(calls[p].method),
           calls[p].hkey, v, Options(calls[p].method).ttl, now)

\* C15 - Bulk clear frame: clearAllCached(owner), whether it returns or
\* throws, leaves owner's _inflightReq registry, every Subject and every
\* caller as they were, so the emission of a producer pending at the clear
\* does after it what it would have done before it: a truthy result that
\* is stored reaches every attached waiter and ends the registration.
BulkClearFrame ==
  [][\A o \in Cleared :
       IsClear(o) =>
         /\ (FlightKey \in DOMAIN props'[o]) = (FlightKey \in DOMAIN props[o])
         /\ Registry(props'[o]) = Registry(props[o])
         /\ subjects' = subjects
         /\ calls' = calls
         /\ \A p \in DOMAIN calls, v \in Values :
              (PendingProducer(p) /\ calls[p].end = "open" /\ calls[p].owner = o)
              => LET before == Resolution(props[o], subjects, calls, p, v)
                     after == Resolution(props'[o], subjects', calls', p, v)
                 IN /\ after = before
                    /\ (Truthy(v) /\ ~after.threw) =>
                         /\ Fhk(p) \notin DOMAIN Registry(after.obj)
                         /\ after.subs[calls[p].reg].isStopped
                         /\ \A w \in subjects[calls[p].reg].observers :
                              /\ after.calls[w].got = <<v>>
                              /\ after.calls[w].end = "complete"]_vars

\* clearAllCached has just run on an owner that holds a cache entry and a
\* pending producer with an attached waiter.
BulkClearFrameWitness ==
  \E p, w \in DOMAIN calls :
    /\ cleared.owner = calls[p].owner
    /\ PendingProducer(p) /\ calls[p].end = "open"
    /\ calls[w].kind = "waiter" /\ calls[w].reg = calls[p].reg
    /\ calls[w].sub = "attached"
    /\ \E key \in DOMAIN props[cleared.owner] : StartsWith(key, Prefix)

\* The keys of method n: <<owner, method, args, hashKey>>.
NoExpiryKeys ==
  {<<"A", "n", args, HashKey("n", args).key>> : args \in NoExpiryArgLists}

\* C16 - Disabled expiry: an entry stored for a method whose options say
\* ttl: false is returned by cacheGet at the time of the store and at
\* every later time.
DisabledExpiry ==
  \A k \in NoExpiryKeys :
    LET e == Entry(k)
    IN (/\ Options(k[2]).ttl = False
        /\ e.tag = "cval"
        /\ e.cval.storedAt <= now)
       => /\ ~Read(k).threw
          /\ Read(k).ret = e.cval.data

\* C17 - Registration lifetime: every registration in an owner's registry
\* belongs to a producer call for that owner and key that has not yet
\* received a result; so none is left once a result is stored, and none
\* comes from a synchronous-mode call.
RegistrationLifetime ==
  \A o \in Owners :
    \A f \in DOMAIN Registry(props[o]) :
      \E p \in DOMAIN calls :
        /\ calls[p].kind = "producer"
        /\ calls[p].owner = o
        /\ Fhk(p) = f
        /\ calls[p].reg = Registry(props[o])[f]
        /\ calls[p].got = <<>>

\* The producer calls that registered Subject i.
Registrants(i) ==
  {p \in DOMAIN calls : calls[p].kind = "producer" /\ calls[p].reg = i}

\* C18 - Operation scoping of registrations: on one owner, a waiter holds
\* a Subject registered by a call of the same operation, and an emission
\* stops only Subjects registered by calls of the emitting operation.
OperationScoping ==
  /\ [](\A w \in DOMAIN calls :
          calls[w].kind = "waiter" =>
            \A p \in Registrants(calls[w].reg) :
              calls[p].method = calls[w].method)
  /\ [][\A c \in DOMAIN calls :
          IsEmit(c) =>
            \A i \in DOMAIN subjects :
              (subjects'[i].isStopped /\ ~subjects[i].isStopped) =>
                \A p \in Registrants(i) :
                  calls[p].method = calls[c].method]_vars

\* C19 - Stuck key after failure: once an asynchronous producer has
\* failed, its registration stays in the registry with its Subject live,
\* and every call for that owner and key made afterwards, at any time, is a
\* waiter handed that Subject and does not invoke the operation.
StuckKey ==
  /\ [](\A p \in DOMAIN calls :
          FailedProducer(p) =>
            /\ Fhk(p) \in DOMAIN Registry(props[calls[p].owner])
            /\ Registry(props[calls[p].owner])[Fhk(p)] = calls[p].reg
            /\ ~subjects[calls[p].reg].isStopped)
  /\ [][\A k \in Keys :
          IsCall(k) =>
            \A p \in DOMAIN calls :
              (/\ FailedProducer(p)
               /\ calls[p].owner = k[1]
               /\ Fhk(p) = FlightHKey(PropName(k[2]), k[4]))
              => /\ NewCall.kind = "waiter"
                 /\ NewCall.reg = calls[p].reg
                 /\ ~NewCall.invoked
                 /\ calls'[p] = calls[p]]_vars

\* A producer failed and, after the ttl of its method has gone by, a later
\* call for its key holds its Subject.
StuckKeyWitness ==
  \E p, q \in DOMAIN calls :
    /\ FailedProducer(p) /\ p < q /\ SameKey(p, q)
    /\ calls[q].kind = "waiter" /\ calls[q].reg = calls[p].reg
    /\ calls[q].end = "open"
    /\ now > Ttl(calls[p].method)

\* The step is the subscription of waiter c.
IsSubscribe(c) ==
  /\ Len(calls') = Len(calls)
  /\ calls'[c] # calls[c]
  /\ Subscribe(c)

\* C20 - Late attachment: a waiter that subscribes to its Subject after the
\* producer resolved it receives completion and no value, and that
\* subscription invokes nothing and changes no property and no Subject;
\* a waiter has a value only if it was attached when the producer resolved.
LateAttachment ==
  /\ [](\A w \in DOMAIN calls :
          calls[w].kind = "waiter" =>
            /\ ~calls[w].invoked
            /\ calls[w].sub = "late" =>
                 calls[w].got = <<>> /\ calls[w].end = "complete"
            /\ calls[w].got # <<>> => calls[w].sub = "attached")
  /\ [][\A c \in DOMAIN calls :
          /\ (IsSubscribe(c) /\ subjects[calls[c].reg].isStopped) =>
               /\ calls'[c] = [calls[c] EXCEPT !.sub = "late", !.end = "complete"]
               /\ \A d \in DOMAIN calls \ {c} : calls'[d] = calls[d]
               /\ props' = props
               /\ subjects' = subjects
          /\ (calls[c].kind = "waiter" /\ calls'[c].got # calls[c].got) =>
               /\ calls[c].sub = "attached"
               /\ c \in subjects[calls[c].reg].observers
               /\ subjects'[calls[c].reg].isStopped]_vars

\* A waiter subscribed after the producer had resolved with a truthy
\* value: it is complete and holds no value.
LateAttachmentWitness ==
  \E p, w \in DOMAIN calls :
    /\ calls[p].kind = "producer" /\ calls[p].got # <<>>
    /\ Truthy(calls[p].got[1])
    /\ calls[w].kind = "waiter" /\ calls[w].reg = calls[p].reg
    /\ calls[w].sub = "late" /\ calls[w].end = "complete"
    /\ calls[w].got = <<>>

====
